---- MODULE Spec2Model ----
(***************************************************************************)
(* Model of the mygrep regular-expression core (Homework6):                *)
(*   pattern.c : Symbol / Concatenation pattern nodes, their match and     *)
(*               destroy methods;                                          *)
(*   mygrep.c  : the recursive-descent parser (parseAtomicPattern ..       *)
(*               parseAlternation) and the argument validation of main.    *)
(*                                                                         *)
(* C strings are sequences of one-character strings; the terminating NUL   *)
(* is read through At.  Mark vectors are functions over 0..len, keeping    *)
(* the C indices.  Pattern nodes live in a heap (a sequence of records);   *)
(* a Pattern* is an index into it and NULL is 0.  malloc is assumed to     *)
(* succeed, as the code assumes.                                           *)
(***************************************************************************)
EXTENDS Integers, Sequences, FiniteSets, TLC

VARIABLES str, pos, p1, ppc, heap, mainpc, pat, line, before, after,
          afterAssoc, gpc, stack, freeLog, badReads

parserVars == <<str, pos, p1, ppc>>
matchVars == <<line, before, after, afterAssoc>>
destroyVars == <<stack, freeLog, badReads>>
vars == <<str, pos, p1, ppc, heap, mainpc, pat, line, before, after,
          afterAssoc, gpc, stack, freeLog, badReads>>

(* ------------------------------ bounds --------------------------------- *)

MaxPat == 3

MaxLen == 3

MaxLeaves == 3

(* ------------------------- characters, strings ------------------------- *)

NUL == "NUL"

NULL == 0

\* The argument of strchr in ordinary().
SPECIALS == <<".", "^", "$", "*", "?", "+", "|", "(", ")", "[", "{">>

\* Characters the pattern strings are drawn from: every special character,
\* two letters, and the closing bracket and brace (which are not special).
PatAlphabet == {"a", "b", "]", "}", ".", "^", "$", "*", "?", "+", "|", "(", ")", "[", "{"}

\* Characters the input lines and the enumerated trees are drawn from.
LineAlphabet == {"a", "b"}

StringsUpTo(A, n) == UNION {[1..k -> A] : k \in 0..n}

\* str[ i ] of a NUL-terminated C string, for i up to its length.
At(s, i) == IF i < Len(s) THEN s[i + 1] ELSE NUL

\* strchr( s, c ) != NULL : the terminator counts as part of the string.
strchr(s, c) == c = NUL \/ \E k \in 1..Len(s) : s[k] = c

\* A plausible slip: '?' left out of the list of special characters.
ordinaryShortList(c) ==
  IF strchr(<<".", "^", "$", "*", "+", "|", "(", ")", "[", "{">>, c) THEN FALSE ELSE TRUE

\* A plausible slip: membership in the list tested without strchr, so the
\* terminator is not found.
ordinaryNoTerminator(c) ==
  IF \E k \in 1..Len(SPECIALS) : SPECIALS[k] = c THEN FALSE ELSE TRUE

ordinary(c) == IF strchr(SPECIALS, c) THEN FALSE ELSE TRUE

(* ------------------------------ pattern.c ------------------------------ *)

makeSymbolPattern(h, sym) ==
  [heap |-> Append(h, [match |-> "matchSymbolPattern",
                       destroy |-> "destroySimplePattern",
                       sym |-> sym]),
   pat |-> Len(h) + 1]

\* A plausible slip: the two sub-pattern fields assigned the wrong way round.
makeConcatenationSwapped(h, q1, q2) ==
  [heap |-> Append(h, [match |-> "matchConcatenationPattern",
                       destroy |-> "destroyBinaryPattern",
                       p1 |-> q2, p2 |-> q1]),
   pat |-> Len(h) + 1]

makeConcatenationPattern(h, q1, q2) ==
  [heap |-> Append(h, [match |-> "matchConcatenationPattern",
                       destroy |-> "destroyBinaryPattern",
                       p1 |-> q1, p2 |-> q2]),
   pat |-> Len(h) + 1]

\* The content of a bool array element that has not been assigned.
Uninit == "uninit"

RECURSIVE symbolLoop(_, _, _, _, _, _)
\* The for loop of matchSymbolPattern, from index i with the array aft.
symbolLoop(sym, len, s, bef, i, aft) ==
  IF i < len
  THEN symbolLoop(sym, len, s, bef, i + 1,
                  [aft EXCEPT ![i + 1] = (bef[i] /\ At(s, i) = sym)])
  ELSE aft

\* A plausible slip: before[ i + 1 ] read in place of before[ i ].
matchSymbolOffByOne(h, p, len, s, bef) ==
  [k \in 0..len |-> IF k = 0 THEN FALSE ELSE bef[k] /\ At(s, k - 1) = h[p].sym]

\* A plausible slip: after[ 0 ] copied from before[ 0 ] instead of cleared.
matchSymbolKeepsFirst(h, p, len, s, bef) ==
  [k \in 0..len |-> IF k = 0 THEN bef[0] ELSE bef[k - 1] /\ At(s, k - 1) = h[p].sym]

\* A plausible slip: || written for &&.
matchSymbolOr(h, p, len, s, bef) ==
  [k \in 0..len |-> IF k = 0 THEN FALSE ELSE bef[k - 1] \/ At(s, k - 1) = h[p].sym]

matchSymbolPattern(h, p, len, s, bef) ==
  symbolLoop(h[p].sym, len, s, bef, 0,
             [[k \in 0..len |-> Uninit] EXCEPT ![0] = FALSE])

RECURSIVE match(_, _, _, _, _)

\* A plausible slip: the marks left by the first sub-pattern are kept in the
\* result as well.
matchConcatenationKeepsMid(h, p, len, s, bef) ==
  LET midMarks == match(h, h[p].p1, len, s, bef)
      aft == match(h, h[p].p2, len, s, midMarks)
  IN  [k \in 0..len |-> aft[k] \/ midMarks[k]]

matchConcatenationPattern(h, p, len, s, bef) ==
  LET midMarks == match(h, h[p].p1, len, s, bef)
  IN  match(h, h[p].p2, len, s, midMarks)

\* pat->match( pat, len, str, before, after ): the call through the match
\* field of the node.
match(h, p, len, s, bef) ==
  IF h[p].match = "matchSymbolPattern"
  THEN matchSymbolPattern(h, p, len, s, bef)
  ELSE matchConcatenationPattern(h, p, len, s, bef)

\* A plausible slip: the first sub-pattern destroyed twice, the second never.
destroyBinaryFirstTwice(h, fr) ==
  CASE fr.at = 92 -> [reads |-> {fr.this, h[fr.this].p1}, call |-> h[fr.this].p1,
                      free |-> NULL, at |-> 93]
    [] fr.at = 93 -> [reads |-> {fr.this, h[fr.this].p1}, call |-> h[fr.this].p1,
                      free |-> NULL, at |-> 94]
    [] fr.at = 94 -> [reads |-> {}, call |-> NULL, free |-> fr.this, at |-> 95]

\* One statement of destroyBinaryPattern in the frame fr (at is the source
\* line): the nodes it dereferences, the node whose destroy it calls, the
\* node it frees.
destroyBinaryPattern(h, fr) ==
  CASE fr.at = 92 -> [reads |-> {fr.this, h[fr.this].p1}, call |-> h[fr.this].p1,
                      free |-> NULL, at |-> 93]
    [] fr.at = 93 -> [reads |-> {fr.this, h[fr.this].p2}, call |-> h[fr.this].p2,
                      free |-> NULL, at |-> 94]
    [] fr.at = 94 -> [reads |-> {}, call |-> NULL, free |-> fr.this, at |-> 95]

\* destroySimplePattern: free( pat ).
destroySimplePattern(h, fr) ==
  [reads |-> {}, call |-> NULL, free |-> fr.this, at |-> 30]

\* The first statement of each destroy function.
entryLine(fn) == IF fn = "destroyBinaryPattern" THEN 92 ELSE 29

\* The nodes already passed to free().
Freed == {freeLog[k] : k \in 1..Len(freeLog)}

(* ------------------------------- mygrep.c ------------------------------ *)

\* fprintf( stderr, "Invalid pattern\n" ); exit( EXIT_FAILURE );
invalidPattern(h, p) == [heap |-> h, pat |-> NULL, pos |-> p, exit |-> TRUE]

parseAtomicPattern(h, s, p) ==
  IF ordinary(At(s, p))
  THEN LET m == makeSymbolPattern(h, At(s, p))
       IN  [heap |-> m.heap, pat |-> m.pat, pos |-> p + 1, exit |-> FALSE]
  ELSE invalidPattern(h, p)

parseRepetition(h, s, p) == parseAtomicPattern(h, s, p)

\* A plausible slip: the loop test without the end-of-string test.
morePatternsNoEnd(s, p) == At(s, p) # "|" /\ At(s, p) # ")"

\* The loop test of parseConcatenation.
morePatterns(s, p) == At(s, p) # NUL /\ At(s, p) # "|" /\ At(s, p) # ")"

\* parseAlternation -> parseConcatenation: "Parse the first pattern".
ParseFirst ==
  /\ ppc = "call"
  /\ LET r == parseRepetition(heap, str, pos)
     IN  IF r.exit
         THEN /\ ppc' = "exit"
              /\ UNCHANGED <<pos, p1, heap>>
         ELSE /\ ppc' = "while"
              /\ p1' = r.pat
              /\ pos' = r.pos
              /\ heap' = r.heap
  /\ UNCHANGED <<str, mainpc, pat, gpc>>
  /\ UNCHANGED matchVars
  /\ UNCHANGED destroyVars

\* One iteration of the while loop of parseConcatenation.
ParseMore ==
  /\ ppc = "while"
  /\ morePatterns(str, pos)
  /\ LET r == parseRepetition(heap, str, pos)
     IN  IF r.exit
         THEN /\ ppc' = "exit"
              /\ UNCHANGED <<pos, p1, heap>>
         ELSE LET c == makeConcatenationPattern(r.heap, p1, r.pat)
              IN  /\ ppc' = "while"
                  /\ p1' = c.pat
                  /\ pos' = r.pos
                  /\ heap' = c.heap
  /\ UNCHANGED <<str, mainpc, pat, gpc>>
  /\ UNCHANGED matchVars
  /\ UNCHANGED destroyVars

\* The loop ends; parseConcatenation and parseAlternation return p1, which
\* the caller stores ( pat = parseAlternation( ... ) ).
ParseReturn ==
  /\ ppc = "while"
  /\ ~ morePatterns(str, pos)
  /\ ppc' = "return"
  /\ pat' = p1
  /\ UNCHANGED <<str, pos, p1, heap, mainpc, gpc>>
  /\ UNCHANGED matchVars
  /\ UNCHANGED destroyVars

\* DICT_POS comes from pattern.h; the usage text "mygrep <pattern>
\* [input-file.txt]" fixes the accepted argument counts to 2 and 3.
DICT_POS == 3

ArgcRange == 1..4

RECURSIVE countLoop(_, _, _)
\* The for loop of main over argv[1]: i is the index, count the running net.
countLoop(s, i, count) ==
  IF i < Len(s)
  THEN IF At(s, i) = "[" \/ At(s, i) = "(" \/ At(s, i) = "{"
       THEN countLoop(s, i + 1, count + 1)
       ELSE IF At(s, i) = "]" \/ At(s, i) = ")" \/ At(s, i) = "}"
            THEN countLoop(s, i + 1, count - 1)
            ELSE countLoop(s, i + 1, count)
  ELSE count

\* A plausible slip: the closing brace left out of the second test.
bracketCountNoBrace(s) ==
  Cardinality({k \in 1..Len(s) : s[k] \in {"[", "(", "{"}})
    - Cardinality({k \in 1..Len(s) : s[k] \in {"]", ")"}})

bracketCount(s) == countLoop(s, 0, 0)

\* The argument validation of main, argv[1] being str; fopenOk is the
\* outcome of fopen on the optional file argument.
mainValidate(argc, s, fopenOk) ==
  IF argc > DICT_POS \/ argc < DICT_POS - 1 THEN "usage"
  ELSE IF argc = DICT_POS /\ ~ fopenOk THEN "cantopen"
  ELSE IF At(s, 0) = "*" \/ At(s, 0) = "+" \/ At(s, 0) = "|" THEN "invalid"
  ELSE IF bracketCount(s) # 0 THEN "invalid"
  ELSE "validated"

MainValidate ==
  /\ mainpc = "start"
  /\ \E argc \in ArgcRange, fopenOk \in BOOLEAN :
       mainpc' = mainValidate(argc, str, fopenOk)
  /\ UNCHANGED <<str, pos, p1, ppc, heap, pat, gpc>>
  /\ UNCHANGED matchVars
  /\ UNCHANGED destroyVars

(* ------------------------ trees as values ------------------------------ *)

Sym(c) == <<"Symbol", c>>

Cat(l, r) == <<"Concatenation", l, r>>

RECURSIVE TreeOf(_, _)
\* The tree rooted at node p of heap h.
TreeOf(h, p) ==
  IF h[p].match = "matchSymbolPattern"
  THEN Sym(h[p].sym)
  ELSE Cat(TreeOf(h, h[p].p1), TreeOf(h, h[p].p2))

RECURSIVE Word(_)
\* The characters of the Symbol leaves of a tree, left to right.
Word(t) == IF t[1] = "Symbol" THEN <<t[2]>> ELSE Word(t[2]) \o Word(t[3])

RECURSIVE LeftNest(_)
\* Concatenation(...Concatenation(Symbol(c1), Symbol(c2))..., Symbol(ck)).
LeftNest(s) ==
  IF Len(s) = 1 THEN Sym(s[1])
  ELSE Cat(LeftNest(SubSeq(s, 1, Len(s) - 1)), Sym(s[Len(s)]))

Metachars == {".", "^", "$", "*", "?", "+", "|", "(", ")", "[", "{"}

AllOrdinary(s) == \A k \in 1..Len(s) : s[k] \notin Metachars

Openers(s) == {k \in 1..Len(s) : s[k] \in {"[", "(", "{"}}

Closers(s) == {k \in 1..Len(s) : s[k] \in {"]", ")", "}"}}

Unbalanced(s) == Cardinality(Openers(s)) # Cardinality(Closers(s))

\* The first position of s that holds a metacharacter or the terminator.
FirstStop(s) ==
  CHOOSE k \in 0..Len(s) :
    /\ At(s, k) \in Metachars \cup {NUL}
    /\ \A j \in 0..(k - 1) : At(s, j) \notin Metachars

(* ------------------------- match and destroy --------------------------- *)

\* pat->match( pat, strlen( str ), str, before, after ) as main calls it.
Match ==
  /\ gpc = "idle"
  /\ pat # NULL
  /\ after' = match(heap, pat, Len(line), line, before)
  /\ gpc' = "matched"
  /\ UNCHANGED <<heap, mainpc, pat, line, before, afterAssoc>>
  /\ UNCHANGED parserVars
  /\ UNCHANGED destroyVars

\* The root is Concatenation( Concatenation( q1, q2 ), q3 ).
LeftHeavy(h, p) ==
  /\ h[p].match = "matchConcatenationPattern"
  /\ h[h[p].p1].match = "matchConcatenationPattern"

\* The same three sub-patterns combined as Concatenation( q1,
\* Concatenation( q2, q3 ) ) and matched on the same line and marks.
MatchReassociated ==
  /\ gpc = "matched"
  /\ LeftHeavy(heap, pat)
  /\ LET q1 == heap[heap[pat].p1].p1
         q2 == heap[heap[pat].p1].p2
         q3 == heap[pat].p2
         inner == makeConcatenationPattern(heap, q2, q3)
         outer == makeConcatenationPattern(inner.heap, q1, inner.pat)
     IN  /\ heap' = outer.heap
         /\ afterAssoc' = match(outer.heap, outer.pat, Len(line), line, before)
  /\ gpc' = "reassociated"
  /\ UNCHANGED <<mainpc, pat, line, before, after>>
  /\ UNCHANGED parserVars
  /\ UNCHANGED destroyVars

\* pat->destroy( pat ) as main calls it: the destroy field of the root is
\* read and the function it names is entered.
DestroyCall ==
  /\ gpc = "idle"
  /\ pat # NULL
  /\ stack = <<>>
  /\ badReads' = badReads \cup ({pat} \cap Freed)
  /\ stack' = <<[this |-> pat, fn |-> heap[pat].destroy,
                 at |-> entryLine(heap[pat].destroy)]>>
  /\ gpc' = "destroying"
  /\ UNCHANGED <<heap, mainpc, pat, freeLog>>
  /\ UNCHANGED parserVars
  /\ UNCHANGED matchVars

\* The effect of one statement d of the running destroy function.
DestroyStep(d) ==
  LET top == stack[Len(stack)]
      rest == SubSeq(stack, 1, Len(stack) - 1)
  IN  /\ badReads' = badReads \cup (d.reads \cap Freed)
      /\ freeLog' = IF d.free # NULL THEN Append(freeLog, d.free) ELSE freeLog
      /\ stack' = IF d.call # NULL
                   THEN Append(Append(rest, [top EXCEPT !.at = d.at]),
                               [this |-> d.call, fn |-> heap[d.call].destroy,
                                at |-> entryLine(heap[d.call].destroy)])
                   ELSE rest
      /\ gpc' = IF d.call = NULL /\ rest = <<>> THEN "destroyed" ELSE gpc

DestroySimple ==
  /\ gpc = "destroying"
  /\ stack # <<>>
  /\ stack[Len(stack)].fn = "destroySimplePattern"
  /\ DestroyStep(destroySimplePattern(heap, stack[Len(stack)]))
  /\ UNCHANGED <<heap, mainpc, pat>>
  /\ UNCHANGED parserVars
  /\ UNCHANGED matchVars

DestroyBinary ==
  /\ gpc = "destroying"
  /\ stack # <<>>
  /\ stack[Len(stack)].fn = "destroyBinaryPattern"
  /\ DestroyStep(destroyBinaryPattern(heap, stack[Len(stack)]))
  /\ UNCHANGED <<heap, mainpc, pat>>
  /\ UNCHANGED parserVars
  /\ UNCHANGED matchVars

(* --------------------------- specifications ---------------------------- *)

NoMarks == [k \in 0..0 |-> FALSE]

InitRest ==
  /\ pos = 0
  /\ p1 = NULL
  /\ ppc = "call"
  /\ mainpc = "start"
  /\ after = NoMarks
  /\ afterAssoc = NoMarks
  /\ gpc = "idle"
  /\ stack = <<>>
  /\ freeLog = <<>>
  /\ badReads = {}

\* The parser applied to a pattern string, next to main's validation of the
\* same string.
Init ==
  /\ str \in StringsUpTo(PatAlphabet, MaxPat)
  /\ heap = <<>>
  /\ pat = NULL
  /\ line = <<>>
  /\ before = NoMarks
  /\ InitRest

Next == ParseFirst \/ ParseMore \/ ParseReturn \/ MainValidate

Spec == Init /\ [][Next]_vars

\* Characters of the pattern strings that are parsed and then matched.
GrepAlphabet == {"a", "b", "|"}

\* The pattern and line pairs of the demonstration in main.
DemoPairs ==
  {<<(<<"b">>), (<<"a", "b", "c">>)>>,
   <<(<<"b">>), (<<"a", "b", "b", "b", "c", "b", "b", "d", "b">>)>>,
   <<(<<"b", "c">>), (<<"a", "b", "c", "b", "c", "d", "b", "c", "b">>)>>}

\* A pattern string is parsed and the tree is matched against a line, all
\* marks set before matching, as main does.
InitGrep ==
  /\ \E pr \in (StringsUpTo(GrepAlphabet, MaxPat) \X StringsUpTo(LineAlphabet, MaxLen))
                  \cup DemoPairs :
        /\ str = pr[1]
        /\ line = pr[2]
  /\ before = [k \in 0..Len(line) |-> TRUE]
  /\ heap = <<>>
  /\ pat = NULL
  /\ InitRest

NextGrep == ParseFirst \/ ParseMore \/ ParseReturn \/ Match

SpecGrep == InitGrep /\ [][NextGrep]_vars

RECURSIVE TreesWith(_)
\* The trees with exactly n Symbol leaves.
TreesWith(n) ==
  IF n = 1 THEN {Sym(c) : c \in LineAlphabet}
  ELSE UNION {{Cat(l, r) : l \in TreesWith(k), r \in TreesWith(n - k)} : k \in 1..(n - 1)}

AllTrees == UNION {TreesWith(n) : n \in 1..MaxLeaves}

RECURSIVE Build(_, _)
\* The heap and root obtained by making the nodes of tree t, sub-patterns
\* first, as the parser does.
Build(h, t) ==
  IF t[1] = "Symbol" THEN makeSymbolPattern(h, t[2])
  ELSE LET l == Build(h, t[2])
           r == Build(l.heap, t[3])
       IN  makeConcatenationPattern(r.heap, l.pat, r.pat)

InitTree ==
  /\ \E t \in AllTrees :
        /\ heap = Build(<<>>, t).heap
        /\ pat = Build(<<>>, t).pat
  /\ str = <<>>
  /\ InitRest

\* A tree of any shape is matched against any line and any marks.
InitMatch ==
  /\ InitTree
  /\ line \in StringsUpTo(LineAlphabet, MaxLen)
  /\ before \in [0..Len(line) -> BOOLEAN]

NextMatch == Match \/ MatchReassociated

SpecMatch == InitMatch /\ [][NextMatch]_vars

\* A tree of any shape is destroyed.
InitDestroy ==
  /\ InitTree
  /\ line = <<>>
  /\ before = NoMarks

NextDestroy == DestroyCall \/ DestroySimple \/ DestroyBinary

SpecDestroy == InitDestroy /\ [][NextDestroy]_vars

(* ------------------------------ parser --------------------------------- *)

\* C4: a pattern string of k >= 1 ordinary characters never fails; while it
\* is parsed the tree built so far is the left-nested tree of the characters
\* consumed, and the tree returned is the left-nested tree of the whole
\* string with the cursor at k.
C4_LeftNested ==
  (Len(str) >= 1 /\ AllOrdinary(str)) =>
     /\ ppc # "exit"
     /\ ppc = "while" => /\ pos \in 1..Len(str)
                          /\ TreeOf(heap, p1) = LeftNest(SubSeq(str, 1, pos))
     /\ ppc = "return" => /\ pos = Len(str)
                           /\ TreeOf(heap, p1) = LeftNest(str)
     /\ (ppc = "return" /\ str = <<"b">>) => TreeOf(heap, p1) = Sym("b")
     /\ (ppc = "return" /\ str = <<"b", "c">>) =>
            TreeOf(heap, p1) = Cat(Sym("b"), Sym("c"))

C4_Witness ==
  /\ ppc = "return"
  /\ Len(str) = 3
  /\ AllOrdinary(str)
  /\ str[1] # str[2]
  /\ heap[p1].match = "matchConcatenationPattern"
  /\ heap[heap[p1].p1].match = "matchConcatenationPattern"

\* The parser is about to parse an atomic pattern: at the first pattern, or
\* in the loop when its test lets another pattern be parsed.
ExpectsAtomic == ppc = "call" \/ (ppc = "while" /\ morePatterns(str, pos))

ParserRejects(s) ==
  FirstStop(s) = 0 \/ At(s, FirstStop(s)) \notin {NUL, "|", ")"}

Spans(t, l, j, i) == Word(t) = SubSeq(l, j + 1, i)

Marked(m) == {k \in DOMAIN m : m[k]}

\* C1: after has length n+1, and after[i] is true exactly when some j <= i
\* has before[j] true and the characters of the tree's leaves equal the line
\* from boundary j to boundary i.
C1_MatchContract ==
  gpc # "idle" =>
     /\ DOMAIN after = 0..Len(line)
     /\ \A i \in 0..Len(line) :
           after[i] = (\E j \in 0..i : before[j] /\ Spans(TreeOf(heap, pat), line, j, i))

C1_Witness ==
  /\ gpc = "matched"
  /\ heap[pat].match = "matchConcatenationPattern"
  /\ Len(line) = 3
  /\ after[2]
  /\ ~ after[3]
  /\ ~ before[1]
  /\ before[3]

\* C2: for a Symbol pattern for c, after[0] is false, after[i+1] is
\* (before[i] and line[i] = c) for every i < n, and after has as many true
\* entries as there are positions i < n with before[i] true and line[i] = c.
C2_SymbolRule ==
  (gpc # "idle" /\ heap[pat].match = "matchSymbolPattern") =>
     /\ after[0] = FALSE
     /\ \A i \in 0..(Len(line) - 1) :
           after[i + 1] = (before[i] /\ line[i + 1] = heap[pat].sym)
     /\ Cardinality(Marked(after)) =
           Cardinality({i \in 0..(Len(line) - 1) :
                          before[i] /\ line[i + 1] = heap[pat].sym})

C2_Witness ==
  /\ gpc = "matched"
  /\ heap[pat].match = "matchSymbolPattern"
  /\ Len(line) = 3
  /\ before[0]
  /\ Cardinality(Marked(after)) = 2
  /\ \E i \in 0..2 : ~ before[i] /\ line[i + 1] = heap[pat].sym

\* The boundaries of line l at which an occurrence of w ends.
OccurrenceEnds(w, l) ==
  {i \in 0..Len(l) : i >= Len(w) /\ SubSeq(l, i - Len(w) + 1, i) = w}

Line9a == <<"a", "b", "c", "b", "c", "d", "b", "c", "b">>

\* C3: a pattern string of ordinary characters, parsed and matched with all
\* marks set, marks exactly the boundaries where an occurrence of the
\* string ends; "bc" on "abcbcdbcb" marks 3, 5 and 8, "b" on "abc" marks 2.
C3_EndToEnd ==
  (gpc = "matched" /\ AllOrdinary(str)) =>
     /\ Marked(after) = OccurrenceEnds(str, line)
     /\ (str = <<"b", "c">> /\ line = Line9a) => Marked(after) = {3, 5, 8}
     /\ (str = <<"b">> /\ line = <<"a", "b", "c">>) => Marked(after) = {2}

C3_Witness ==
  /\ gpc = "matched"
  /\ str = <<"b", "c">>
  /\ line = Line9a
  /\ Marked(after) = {3, 5, 8}

\* C7: Concatenation(Concatenation(q1, q2), q3) and Concatenation(q1,
\* Concatenation(q2, q3)) give the same after vector on the same line and
\* before vector.
C7_Associative == gpc = "reassociated" => afterAssoc = after

C7_Witness ==
  /\ gpc = "reassociated"
  /\ Marked(afterAssoc) # {}
  /\ TreeOf(heap, Len(heap)) # TreeOf(heap, pat)
  /\ TreeOf(heap, Len(heap))[3][1] = "Concatenation"
  /\ \E k \in 0..Len(line) : ~ before[k]

\* C8: if every entry of before is false, every entry of after is false,
\* for every tree and every line, the empty line included.
C8_AllFalse ==
  (gpc # "idle" /\ Marked(before) = {}) =>
     /\ DOMAIN after = DOMAIN before
     /\ \A k \in DOMAIN after : after[k] = FALSE

C8_Witness ==
  /\ gpc = "matched"
  /\ Marked(before) = {}
  /\ Len(line) = 3
  /\ heap[pat].match = "matchConcatenationPattern"
  /\ Marked(after) = {}
  /\ \E k \in 1..3 : line[k] = heap[heap[pat].p2].sym

(* ------------------------------ destroying ----------------------------- *)

\* The position of node p in the order of the free() calls, 0 if not freed.
FreedAt(p) ==
  IF p \in Freed THEN CHOOSE k \in 1..Len(freeLog) : freeLog[k] = p ELSE 0

\* C9: destroy frees no node twice, frees both children of a Concatenation
\* before the Concatenation itself, reads no node that has been freed, and
\* when it returns every node of the tree has been freed exactly once.
C9_DestroyOnce ==
  /\ badReads = {}
  /\ \A j, k \in 1..Len(freeLog) : freeLog[j] = freeLog[k] => j = k
  /\ \A p \in Freed :
        heap[p].destroy = "destroyBinaryPattern" =>
           /\ heap[p].p1 \in Freed
           /\ heap[p].p2 \in Freed
           /\ FreedAt(heap[p].p1) < FreedAt(p)
           /\ FreedAt(heap[p].p2) < FreedAt(p)
  /\ gpc = "destroyed" =>
        /\ Freed = 1..Len(heap)
        /\ Len(freeLog) = Len(heap)
        /\ freeLog[Len(freeLog)] = pat
        /\ stack = <<>>

C9_Witness ==
  /\ gpc = "destroyed"
  /\ Len(heap) = 5
  /\ heap[heap[pat].p2].destroy = "destroyBinaryPattern"
  /\ Len(freeLog) = 5

====
